---- MODULE Spec2Model ----
(***************************************************************************)
(* Model of the voice client in voice_agent/frontend/src/App.tsx: the      *)
(* React component App, its refs, the WebSocket, the MediaRecorder and the *)
(* Audio elements it creates, and the callbacks it attaches to them.       *)
(*                                                                         *)
(* One action is one browser task: a click, a socket event, a promise      *)
(* continuation, a recorder or audio event.  The handler runs to           *)
(* completion; React renders between tasks.                                *)
(*                                                                         *)
(* isRecording, isPlaying, isPaused and isProcessing are useState values:  *)
(* constants of the render in which a function was created.  A callback    *)
(* attached to a socket or a recorder keeps the values of the render in    *)
(* which handleMicClick ran (its closure); only handleMicClick, bound to   *)
(* the button on every render, reads the current values.  The setters and  *)
(* the refs are shared by every render.                                    *)
(*                                                                         *)
(* The browser objects behave as their interfaces say.  MediaRecorder.stop *)
(* makes state "inactive" at once and queues one task that delivers the    *)
(* last dataavailable event and then the stop event.  A WebSocket goes     *)
(* CONNECTING -> OPEN -> CLOSING -> CLOSED; it becomes CLOSED in the task  *)
(* that fires close (after error, when the connection failed).  An Audio   *)
(* element that plays may end, may fire error, and its play() promise may  *)
(* reject, after an error event too.                                       *)
(*                                                                         *)
(* audioChunksRef (line 19) is only ever pushed to (line 177) and never    *)
(* read; transcript and aiResponse are display strings no handler reads.   *)
(* They are not part of the state below.  A chunk is modelled by its byte  *)
(* size, the one property of it the code reads.  The component stays       *)
(* mounted: the cleanup of lines 288-298 is not an action.                 *)
(***************************************************************************)
EXTENDS Integers, Sequences, FiniteSets, TLC

PAUSE_THRESHOLD == 2
SILENCE_THRESHOLD == 5
SilentBelow == 1000

\* Bounds of the model.
MaxSockets == 2      \* WebSocket objects created in one behaviour
MaxRecorders == 2    \* getUserMedia calls (hence MediaRecorders) in one behaviour
MaxAudios == 2       \* reply payloads received (hence Audio elements)
MaxBuf == 3          \* length of currentAudioChunksRef.current
MaxObjects == 3      \* sockets, getUserMedia calls and reply payloads together

ChunkSizes == {999, 1000}

InboundText == {"Transcript", "AI", "Error", "AI_SPEAKING", "AI_DONE_SPEAKING",
                "CLIENT_READY", "Warning", "SKIPPING_EMPTY_INPUT", "PAUSE_PROCESSED"}

VARIABLES
    isRecording, isPlaying, isPaused, isProcessing,   \* useState, current render
    wsRef,                    \* 0 (null) or an index of sockets
    mediaRecorderRef,         \* 0 (null) or an index of recorders
    silentChunksRef,
    currentAudioChunksRef,    \* sequence of chunks
    sockets,                  \* every WebSocket created: readyState and handler closure
    recorders,                \* every MediaRecorder created: state and handler closure
    pendingMedia,             \* closures of setupMediaRecorder calls awaiting getUserMedia
    pendingBuffers,           \* number of arrayBuffer() promises awaiting playAudio
    audios,                   \* every Audio element created
    sent,                     \* messages the last handler sent, in order
    trailingSilent            \* silent chunks the recorder of mediaRecorderRef delivered since its
                              \* last speech chunk (0 when it is not recording)

vars == <<isRecording, isPlaying, isPaused, isProcessing, wsRef, mediaRecorderRef,
          silentChunksRef, currentAudioChunksRef, sockets, recorders, pendingMedia,
          pendingBuffers, audios, sent, trailingSilent>>

\* The state a handler starts from; sent collects what this handler sends.
Cur ==
    [isRecording |-> isRecording, isPlaying |-> isPlaying, isPaused |-> isPaused,
     isProcessing |-> isProcessing, wsRef |-> wsRef, mediaRecorderRef |-> mediaRecorderRef,
     silentChunksRef |-> silentChunksRef, currentAudioChunksRef |-> currentAudioChunksRef,
     sockets |-> sockets, recorders |-> recorders, pendingMedia |-> pendingMedia,
     pendingBuffers |-> pendingBuffers, audios |-> audios, sent |-> <<>>]

Commit(st) ==
    /\ isRecording' = st.isRecording
    /\ isPlaying' = st.isPlaying
    /\ isPaused' = st.isPaused
    /\ isProcessing' = st.isProcessing
    /\ wsRef' = st.wsRef
    /\ mediaRecorderRef' = st.mediaRecorderRef
    /\ silentChunksRef' = st.silentChunksRef
    /\ currentAudioChunksRef' = st.currentAudioChunksRef
    /\ sockets' = st.sockets
    /\ recorders' = st.recorders
    /\ pendingMedia' = st.pendingMedia
    /\ pendingBuffers' = st.pendingBuffers
    /\ audios' = st.audios
    /\ sent' = st.sent

\* The useState values of the render a function was created in.
Closure(st) ==
    [isPlaying |-> st.isPlaying, isPaused |-> st.isPaused, isProcessing |-> st.isProcessing]

\* The closure kept for a handler that will not run again (a socket's onopen once
\* it has fired, a recorder's ondataavailable once its stop event has fired).
NoClosure == [isPlaying |-> FALSE, isPaused |-> FALSE, isProcessing |-> FALSE]

\* wsRef.current && wsRef.current.readyState === WebSocket.OPEN
wsOpen(st) == st.wsRef # 0 /\ st.sockets[st.wsRef].readyState = "OPEN"

\* wsRef.current.send(...)
send(st, kind, chunks) ==
    [st EXCEPT !.sent = Append(@, [kind |-> kind, chunks |-> chunks, sock |-> st.wsRef,
                                   readyState |-> st.sockets[st.wsRef].readyState])]

\* MediaRecorder.stop(): state becomes inactive at once; the last dataavailable
\* event and the stop event are queued (tail).
recorderStop(r) == [r EXCEPT !.state = "inactive", !.tail = TRUE]

\* stopRecording without the test of the recorder's state, the recording flag
\* flipped like the button's label instead of cleared.
stopRecordingToggle(st) ==
    LET s1 == IF st.mediaRecorderRef # 0
              THEN [st EXCEPT !.recorders[st.mediaRecorderRef] = recorderStop(@),
                              !.isRecording = ~@,
                              !.isPaused = FALSE,
                              !.isProcessing = FALSE]
              ELSE st
    IN  [s1 EXCEPT !.silentChunksRef = 0]

\* stopRecording without the reset of the silence counter.
stopRecordingKeepsSilenceRun(st) ==
    LET active == st.mediaRecorderRef # 0
                  /\ st.recorders[st.mediaRecorderRef].state # "inactive"
    IN  IF active
        THEN [st EXCEPT !.recorders[st.mediaRecorderRef] = recorderStop(@),
                        !.isRecording = FALSE,
                        !.isPaused = FALSE,
                        !.isProcessing = FALSE]
        ELSE st

stopRecording(st) ==
    LET active == st.mediaRecorderRef # 0
                  /\ st.recorders[st.mediaRecorderRef].state # "inactive"
        s1 == IF active
              THEN [st EXCEPT !.recorders[st.mediaRecorderRef] = recorderStop(@),
                              !.isRecording = FALSE,
                              !.isPaused = FALSE,
                              !.isProcessing = FALSE]
              ELSE st
    IN  [s1 EXCEPT !.silentChunksRef = 0]

\* c: the closure of the render processPausedAudio belongs to.
processPausedAudio(st, c) ==
    IF Len(st.currentAudioChunksRef) = 0 \/ c.isProcessing
    THEN st
    ELSE LET s1 == [st EXCEPT !.isProcessing = TRUE]
             chunksToProcess == s1.currentAudioChunksRef
         IN  IF wsOpen(s1)
             THEN [send(send(s1, "PAUSE_PROCESSING", <<>>), "blob", chunksToProcess)
                      EXCEPT !.currentAudioChunksRef = <<>>]
             ELSE s1

\* const isSilent = e.data.size < 1000
isSilent(size) == size < SilentBelow

\* mediaRecorderRef.current.ondataavailable of recorder r, whose closure is c.
ondataavailable(st, r, size) ==
    LET c == st.recorders[r].closure
        chunk == size
        s1 == IF ~c.isProcessing
              THEN [st EXCEPT !.currentAudioChunksRef = Append(@, chunk)]
              ELSE st
    IN  IF c.isPlaying \/ c.isProcessing THEN s1
        ELSE IF ~wsOpen(s1) THEN stopRecording(s1)
        ELSE IF isSilent(size)
        THEN LET s2 == [s1 EXCEPT !.silentChunksRef = @ + 1]
                 s3 == IF s2.silentChunksRef >= PAUSE_THRESHOLD /\ ~c.isPaused
                       THEN processPausedAudio([s2 EXCEPT !.isPaused = TRUE], c)
                       ELSE s2
             IN  IF s3.silentChunksRef >= SILENCE_THRESHOLD
                 THEN stopRecording(s3)
                 ELSE s3
        ELSE LET s2 == [s1 EXCEPT !.isPaused = IF c.isPaused THEN FALSE ELSE @,
                                  !.silentChunksRef = 0]
             IN  IF ~c.isProcessing THEN send(s2, "chunk", <<chunk>>) ELSE s2

\* setupMediaRecorder up to its await: the call is pending on getUserMedia.
setupMediaRecorder(st, c) ==
    [st EXCEPT !.pendingMedia = Append(@, c)]

\* setupMediaRecorder after getUserMedia resolved.
mediaGranted(st, c) ==
    LET r == Len(st.recorders) + 1
    IN  [st EXCEPT !.recorders = Append(@, [state |-> "recording", tail |-> FALSE,
                                            closure |-> c]),
                   !.mediaRecorderRef = r,
                   !.isRecording = TRUE]

\* setupMediaRecorder's catch.
mediaDenied(st) == [st EXCEPT !.isRecording = FALSE]

playAudio(st) ==
    LET s1 == stopRecording(st)
    IN  [s1 EXCEPT !.isPlaying = TRUE,
                   !.audios = Append(@, "playing")]

\* audio.onended
onended(st) ==
    IF wsOpen(st) THEN send(st, "CLIENT_DONE_PLAYING", <<>>) ELSE st

\* audio.onerror, and the catch of audio.play()
onerror(st) == [st EXCEPT !.isPlaying = FALSE]

playRejected(st) == [st EXCEPT !.isPlaying = FALSE]

\* handleWSMessage with PAUSE_PROCESSED performing a flush of the buffer.
handleWSMessageFlushOnAck(st, m) ==
    CASE m = "Error" -> [st EXCEPT !.isPlaying = FALSE]
      [] m = "AI_SPEAKING" -> [st EXCEPT !.isPlaying = TRUE]
      [] m = "CLIENT_READY" -> [st EXCEPT !.isPlaying = FALSE, !.isProcessing = FALSE]
      [] m = "SKIPPING_EMPTY_INPUT" -> [st EXCEPT !.isPlaying = FALSE, !.isProcessing = FALSE]
      [] m = "PAUSE_PROCESSED" -> processPausedAudio([st EXCEPT !.isProcessing = FALSE], NoClosure)
      [] m = "Blob" -> [st EXCEPT !.pendingBuffers = @ + 1]
      [] OTHER -> st

\* handleWSMessage with CLIENT_READY starting a capture as the open-socket branch
\* of handleMicClick does.
handleWSMessageReadyStartsCapture(st, m) ==
    CASE m = "Error" -> [st EXCEPT !.isPlaying = FALSE]
      [] m = "AI_SPEAKING" -> [st EXCEPT !.isPlaying = TRUE]
      [] m = "CLIENT_READY" ->
            setupMediaRecorder([st EXCEPT !.isPlaying = FALSE, !.isProcessing = FALSE],
                               NoClosure)
      [] m = "SKIPPING_EMPTY_INPUT" -> [st EXCEPT !.isPlaying = FALSE, !.isProcessing = FALSE]
      [] m = "PAUSE_PROCESSED" -> [st EXCEPT !.isProcessing = FALSE]
      [] m = "Blob" -> [st EXCEPT !.pendingBuffers = @ + 1]
      [] OTHER -> st

handleWSMessage(st, m) ==
    CASE m = "Error" -> [st EXCEPT !.isPlaying = FALSE]
      [] m = "AI_SPEAKING" -> [st EXCEPT !.isPlaying = TRUE]
      [] m = "CLIENT_READY" -> [st EXCEPT !.isPlaying = FALSE, !.isProcessing = FALSE]
      [] m = "SKIPPING_EMPTY_INPUT" -> [st EXCEPT !.isPlaying = FALSE, !.isProcessing = FALSE]
      [] m = "PAUSE_PROCESSED" -> [st EXCEPT !.isProcessing = FALSE]
      [] m = "Blob" -> [st EXCEPT !.pendingBuffers = @ + 1]
      [] OTHER -> st

\* wsRef.current.onclose
onclose(st) ==
    [st EXCEPT !.isRecording = FALSE, !.isPlaying = FALSE, !.wsRef = 0]

\* wsRef.current.onerror
onsocketerror(st) ==
    LET s1 == [st EXCEPT !.isRecording = FALSE, !.isPlaying = FALSE]
    IN  IF s1.wsRef # 0 /\ s1.sockets[s1.wsRef].readyState # "OPEN"
        THEN [s1 EXCEPT !.wsRef = 0]
        ELSE s1

\* new WebSocket(WS_URL) with its four handlers, created in the render of closure c.
newWebSocket(st, c) ==
    [st EXCEPT !.sockets = Append(@, [readyState |-> "CONNECTING", closure |-> c]),
               !.wsRef = Len(st.sockets) + 1]

handleMicClick(st) ==
    IF st.isPlaying THEN st
    ELSE IF ~st.isRecording
    THEN IF st.wsRef = 0 \/ st.sockets[st.wsRef].readyState \in {"CLOSED", "CLOSING"}
         THEN newWebSocket(st, Closure(st))
         ELSE IF st.sockets[st.wsRef].readyState = "OPEN"
         THEN setupMediaRecorder(st, Closure(st))
         ELSE st
    ELSE stopRecording(st)

----------------------------------------------------------------------------
Init ==
    /\ isRecording = FALSE
    /\ isPlaying = FALSE
    /\ isPaused = FALSE
    /\ isProcessing = FALSE
    /\ wsRef = 0
    /\ mediaRecorderRef = 0
    /\ silentChunksRef = 0
    /\ currentAudioChunksRef = <<>>
    /\ sockets = <<>>
    /\ recorders = <<>>
    /\ pendingMedia = <<>>
    /\ pendingBuffers = 0
    /\ audios = <<>>
    /\ sent = <<>>
    /\ trailingSilent = 0

\* Calls of getUserMedia made so far.
MediaCalls == Len(recorders) + Len(pendingMedia)
\* Reply payloads received so far.
Payloads == Len(audios) + pendingBuffers

\* The recorder of mediaRecorderRef is recording.
Capturing(ref, recs) == ref # 0 /\ recs[ref].state = "recording"

\* trailingSilent after a step: n while the current capture goes on.
Track(n) ==
    trailingSilent' = IF Capturing(mediaRecorderRef', recorders') THEN n ELSE 0

\* Sockets, getUserMedia calls and reply payloads of the state st.
Objects(st) ==
    Len(st.sockets) + Len(st.recorders) + Len(st.pendingMedia) + Len(st.audios)
    + st.pendingBuffers

RemoveAt(s, i) == SubSeq(s, 1, i - 1) \o SubSeq(s, i + 1, Len(s))

Opened == [readyState |-> "OPEN", closure |-> NoClosure]
Closing == [readyState |-> "CLOSING", closure |-> NoClosure]
Closed == [readyState |-> "CLOSED", closure |-> NoClosure]
Released == [state |-> "inactive", tail |-> FALSE, closure |-> NoClosure]

\* The user clicks the talk button.
MicClick ==
    /\ LET st == handleMicClick(Cur)
       IN  /\ Len(st.sockets) <= MaxSockets
           /\ Len(st.recorders) + Len(st.pendingMedia) <= MaxRecorders
           /\ Objects(st) <= MaxObjects
           /\ Commit(st)
    /\ Track(trailingSilent)

\* The connection of socket s is established: onopen.
SocketOpen(s) ==
    /\ sockets[s].readyState = "CONNECTING"
    /\ MediaCalls < MaxRecorders
    /\ Objects(Cur) < MaxObjects
    /\ Commit(setupMediaRecorder([Cur EXCEPT !.sockets[s] = Opened], sockets[s].closure))
    /\ Track(trailingSilent)

\* The closing handshake of socket s starts (the service sent a Close frame).
SocketClosing(s) ==
    /\ sockets[s].readyState = "OPEN"
    /\ Commit([Cur EXCEPT !.sockets[s] = Closing])
    /\ Track(trailingSilent)

\* The connection of socket s is closed cleanly: the close event.
SocketClose(s) ==
    /\ sockets[s].readyState # "CLOSED"
    /\ Commit(onclose([Cur EXCEPT !.sockets[s] = Closed]))
    /\ Track(trailingSilent)

\* The connection of socket s fails: the error event, then the close event.
SocketError(s) ==
    /\ sockets[s].readyState # "CLOSED"
    /\ Commit(onclose(onsocketerror([Cur EXCEPT !.sockets[s] = Closed])))
    /\ Track(trailingSilent)

\* A text message arrives on socket s.
WSText(s, m) ==
    /\ sockets[s].readyState = "OPEN"
    /\ Commit(handleWSMessage(Cur, m))
    /\ Track(trailingSilent)

\* A binary message arrives on socket s.
WSBlob(s) ==
    /\ sockets[s].readyState = "OPEN"
    /\ Payloads < MaxAudios
    /\ Objects(Cur) < MaxObjects
    /\ Commit(handleWSMessage(Cur, "Blob"))
    /\ Track(trailingSilent)

\* getUserMedia of the i-th pending setupMediaRecorder call resolves.
MediaGranted(i) ==
    /\ Commit(mediaGranted([Cur EXCEPT !.pendingMedia = RemoveAt(@, i)], pendingMedia[i]))
    /\ Track(0)

\* getUserMedia of the i-th pending setupMediaRecorder call rejects.
MediaDenied(i) ==
    /\ Commit(mediaDenied([Cur EXCEPT !.pendingMedia = RemoveAt(@, i)]))
    /\ Track(trailingSilent)

\* What the delivery of a chunk of this size does to a recorder's trailing run.
Trail(n, size) ==
    IF isSilent(size)
    THEN IF n < SILENCE_THRESHOLD + 1 THEN n + 1 ELSE n
    ELSE 0

\* Recorder r delivers its next timeslice chunk.
DataAvailable(r, size) ==
    /\ recorders[r].state = "recording"
    /\ recorders[r].closure.isProcessing \/ Len(currentAudioChunksRef) < MaxBuf
    /\ Commit(ondataavailable(Cur, r, size))
    /\ Track(IF r = mediaRecorderRef THEN Trail(trailingSilent, size) ELSE trailingSilent)

\* Recorder r, stopped, delivers its last chunk; then its stop event releases the tracks.
FinalData(r, size) ==
    /\ recorders[r].tail
    /\ recorders[r].closure.isProcessing \/ Len(currentAudioChunksRef) < MaxBuf
    /\ Commit([ondataavailable(Cur, r, size) EXCEPT !.recorders[r] = Released])
    /\ Track(trailingSilent)

\* An arrayBuffer() promise resolves: playAudio.
PlayAudio ==
    /\ pendingBuffers > 0
    /\ Commit(playAudio([Cur EXCEPT !.pendingBuffers = @ - 1]))
    /\ Track(trailingSilent)

AudioEnded(a) ==
    /\ audios[a] = "playing"
    /\ Commit(onended([Cur EXCEPT !.audios[a] = "done"]))
    /\ Track(trailingSilent)

AudioError(a) ==
    /\ audios[a] = "playing"
    /\ Commit(onerror([Cur EXCEPT !.audios[a] = "errored"]))
    /\ Track(trailingSilent)

\* audio.play() rejects: playback never started, or it failed while loading
\* (then the error event was fired as well).
AudioPlayRejected(a) ==
    /\ audios[a] \in {"playing", "errored"}
    /\ Commit(playRejected([Cur EXCEPT !.audios[a] = "done"]))
    /\ Track(trailingSilent)

Next ==
    \/ MicClick
    \/ \E s \in DOMAIN sockets : SocketOpen(s)
    \/ \E s \in DOMAIN sockets : SocketClosing(s)
    \/ \E s \in DOMAIN sockets : SocketClose(s)
    \/ \E s \in DOMAIN sockets : SocketError(s)
    \/ \E s \in DOMAIN sockets : \E m \in InboundText : WSText(s, m)
    \/ \E s \in DOMAIN sockets : WSBlob(s)
    \/ \E i \in DOMAIN pendingMedia : MediaGranted(i)
    \/ \E i \in DOMAIN pendingMedia : MediaDenied(i)
    \/ \E r \in DOMAIN recorders : \E size \in ChunkSizes : DataAvailable(r, size)
    \/ \E r \in DOMAIN recorders : \E size \in ChunkSizes : FinalData(r, size)
    \/ PlayAudio
    \/ \E a \in DOMAIN audios : AudioEnded(a)
    \/ \E a \in DOMAIN audios : AudioError(a)
    \/ \E a \in DOMAIN audios : AudioPlayRejected(a)

Spec == Init /\ [][Next]_vars

----------------------------------------------------------------------------
\* What the claims speak of, read off the state.

\* Some MediaRecorder is recording.
CaptureActive == \E r \in DOMAIN recorders : recorders[r].state = "recording"

\* Some Audio element is playing a reply.
PlaybackActive == \E a \in DOMAIN audios : audios[a] = "playing"

\* The turn state the flags stand for, in the order getStatusMessage tests them;
\* isPlaying is "true when AI audio is playing OR when waiting for AI response".
TurnState ==
    IF isPlaying THEN (IF PlaybackActive THEN "Speaking" ELSE "AwaitingReply")
    ELSE IF isRecording THEN (IF isProcessing THEN "PauseFlushing" ELSE "Listening")
    ELSE "Idle"

\* Pause-flushes (PauseMarker messages) among the messages of the last handler.
FlushCount == Cardinality({i \in DOMAIN sent : sent[i].kind = "PAUSE_PROCESSING"})

\* Captured audio among the messages of the last handler.
AudioSent == \E i \in DOMAIN sent : sent[i].kind \in {"chunk", "blob"}

\* Playback-finished messages among the messages of the last handler.
DonePlayingCount == Cardinality({i \in DOMAIN sent : sent[i].kind = "CLIENT_DONE_PLAYING"})

\* C1: in every reachable state, while a reply is being played back (Speaking)
\* no microphone capture is active.
NoCaptureWhileSpeaking == TurnState = "Speaking" => ~CaptureActive

\* C2: in every reachable state capture is active exactly when the turn state is
\* Listening or PauseFlushing, and playback is active exactly when it is Speaking.
TurnStateDeterminesResources ==
    /\ CaptureActive <=> TurnState \in {"Listening", "PauseFlushing"}
    /\ PlaybackActive <=> TurnState = "Speaking"

\* C3: a handler sends a pause-flush exactly when it takes the silent-chunk count
\* from below PAUSE_THRESHOLD to PAUSE_THRESHOLD, and then sends one; later silent
\* chunks of the same run send none.
PauseFlushOncePerCrossing ==
    [][FlushCount' = IF /\ silentChunksRef = PAUSE_THRESHOLD - 1
                        /\ silentChunksRef' = PAUSE_THRESHOLD
                     THEN 1 ELSE 0]_vars

\* C4: a chunk callback of the running capture on an open channel stops the
\* capture exactly when the chunk is the SILENCE_THRESHOLD-th consecutive silent
\* chunk of that capture, whether or not a pause-flush is unacknowledged.
AutoStopAtSilenceThreshold ==
    [][\A size \in ChunkSizes :
          /\ Capturing(mediaRecorderRef, recorders)
          /\ wsOpen(Cur)
          /\ DataAvailable(mediaRecorderRef, size)
          => (~Capturing(mediaRecorderRef', recorders')
              <=> (isSilent(size) /\ trailingSilent = SILENCE_THRESHOLD - 1))]_vars

\* C5: while a capture is running, silentChunksRef is the number of silent chunks
\* the capture delivered since its last speech chunk.
SilenceRunIsTrailingCount ==
    Capturing(mediaRecorderRef, recorders) => silentChunksRef = trailingSilent

\* C6: a handler that starts while isPlaying (Speaking) or isProcessing
\* (PauseFlushing) holds sends no captured audio.
NoAudioSentWhileSpeakingOrFlushing ==
    [][(isPlaying \/ isProcessing) => ~AudioSent']_vars

\* C7: an Audio element leaves "playing" by one completion event only, and the
\* handler of that event sends CLIENT_DONE_PLAYING once and leaves isPlaying
\* set (AwaitingReply).
OneCompletionPerPlay ==
    [][\A a \in DOMAIN audios :
          audios'[a] # audios[a]
          => /\ audios[a] = "playing"
             /\ DonePlayingCount' = 1
             /\ isPlaying']_vars

\* C8: the handler of a transport close or error leaves the turn state Idle
\* with no capture and no playback active.
CloseStopsEverything ==
    [][(\E s \in DOMAIN sockets :
           sockets[s].readyState # "CLOSED" /\ sockets'[s].readyState = "CLOSED")
       => /\ TurnState' = "Idle"
          /\ ~CaptureActive'
          /\ ~PlaybackActive']_vars

\* A pause-flush is owed: the silent run is past the pause threshold with chunks
\* still buffered while the earlier flush is unacknowledged.
FlushOwed ==
    /\ isProcessing
    /\ Capturing(mediaRecorderRef, recorders)
    /\ silentChunksRef >= PAUSE_THRESHOLD
    /\ currentAudioChunksRef # <<>>

Quiescent ==
    /\ \A s \in DOMAIN sockets : sockets[s].readyState = "CLOSED"
    /\ \A r \in DOMAIN recorders : recorders[r].state = "inactive" /\ ~recorders[r].tail
    /\ \A a \in DOMAIN audios : audios[a] = "done"
    /\ pendingMedia = <<>>
    /\ pendingBuffers = 0

\* C10: once only the user can act (no open channel, nothing pending), the talk
\* control is enabled: isPlaying is false.
TalkControlReenabled == Quiescent => ~isPlaying

\* C11: in every reachable state, calling stopRecording twice leaves the state
\* (recorders, flags, silent-chunk count, buffer, messages sent) that calling it
\* once leaves.
StopIsIdempotent == stopRecording(stopRecording(Cur)) = stopRecording(Cur)

\* C11 witness: stopRecording has stopped the recorder of mediaRecorderRef (its
\* last chunk is still to come), so a further call finds capture inactive.
StoppedOnce ==
    /\ mediaRecorderRef # 0
    /\ recorders[mediaRecorderRef].tail
    /\ ~isRecording
    /\ silentChunksRef = 0

\* C12 as stated: a CLIENT_READY handled in AwaitingReply leaves the turn state
\* Listening with a capture running.
ReadyRestartsCapture ==
    [][((\E s \in DOMAIN sockets : WSText(s, "CLIENT_READY")) /\ TurnState = "AwaitingReply")
       => (TurnState' = "Listening" /\ CaptureActive')]_vars

\* C12 as amended: the handler of CLIENT_READY clears isPlaying and isProcessing
\* and does nothing else: it sends no message, starts no capture and asks for no
\* microphone. Handled in AwaitingReply with isRecording false it leaves the turn
\* state Idle, the talk control enabled; handled in Listening it changes no flag
\* and no turn state.
ReadyOnlyClearsFlags ==
    [][(\E s \in DOMAIN sockets : WSText(s, "CLIENT_READY"))
       => /\ sent' = <<>>
          /\ ~isPlaying'
          /\ ~isProcessing'
          /\ UNCHANGED <<isRecording, isPaused, wsRef, mediaRecorderRef, silentChunksRef,
                         currentAudioChunksRef, sockets, recorders, pendingMedia,
                         pendingBuffers, audios>>
          /\ (TurnState = "AwaitingReply" /\ ~isRecording) => TurnState' = "Idle"
          /\ TurnState = "Listening"
             => (TurnState' = "Listening" /\ UNCHANGED <<isPlaying, isProcessing>>)]_vars

\* C12 witness: a reply was played to its end, the channel is still open and the
\* handler that ran last (CLIENT_READY among them) sent nothing and left the
\* playing flag clear: no capture runs and none is being set up.
ReadyAfterReply ==
    /\ \E a \in DOMAIN audios : audios[a] = "done"
    /\ wsRef # 0
    /\ sockets[wsRef].readyState = "OPEN"
    /\ ~isPlaying
    /\ ~isProcessing
    /\ ~isRecording
    /\ ~CaptureActive
    /\ pendingMedia = <<>>
    /\ sent = <<>>

\* C13: AI_SPEAKING handled in Listening leaves the turn state AwaitingReply; the
\* playback of the payload, begun in AwaitingReply, leaves the turn state Speaking
\* with no recorder capturing and exactly one Audio element playing, the one it
\* created; AI_DONE_SPEAKING sends nothing and changes no state.
ReplySequenceDrivesTurn ==
    [][/\ ((\E s \in DOMAIN sockets : WSText(s, "AI_SPEAKING")) /\ TurnState = "Listening")
          => TurnState' = "AwaitingReply"
       /\ (PlayAudio /\ TurnState = "AwaitingReply")
          => /\ TurnState' = "Speaking"
             /\ ~CaptureActive'
             /\ audios' = Append(audios, "playing")
             /\ Cardinality({a \in DOMAIN audios' : audios'[a] = "playing"}) = 1
       /\ (\E s \in DOMAIN sockets : WSText(s, "AI_DONE_SPEAKING"))
          => /\ sent' = <<>>
             /\ UNCHANGED <<isRecording, isPlaying, isPaused, isProcessing, wsRef,
                            mediaRecorderRef, silentChunksRef, currentAudioChunksRef,
                            sockets, recorders, pendingMedia, pendingBuffers, audios>>]_vars

\* C14: every message a handler sends goes to a socket whose readyState is OPEN,
\* and a chunk a recording recorder delivers while the socket of wsRef is not OPEN
\* is not sent and leaves that recorder stopped.
SendOnlyWhenOpen ==
    [][/\ \A i \in DOMAIN sent' : sent'[i].readyState = "OPEN"
       /\ \A r \in DOMAIN recorders : \A size \in ChunkSizes :
            (DataAvailable(r, size) /\ ~wsOpen(Cur))
            => (sent' = <<>> /\ recorders'[r].state = "inactive")]_vars

\* C15: a handler that flushes in Listening sends exactly PAUSE_PROCESSING and
\* then one payload holding the buffer followed by the chunk just delivered,
\* leaves the buffer empty and the turn state PauseFlushing; PAUSE_PROCESSED
\* handled in PauseFlushing leaves the turn state Listening and sends nothing;
\* processPausedAudio with an empty buffer changes nothing and sends nothing.
PauseFlushSendsBufferOnce ==
    [][/\ (TurnState = "Listening" /\ FlushCount' > 0)
          => /\ Len(sent') = 2
             /\ sent'[1].kind = "PAUSE_PROCESSING"
             /\ sent'[2].kind = "blob"
             /\ \E size \in ChunkSizes :
                    sent'[2].chunks = Append(currentAudioChunksRef, size)
             /\ currentAudioChunksRef' = <<>>
             /\ TurnState' = "PauseFlushing"
       /\ ((\E s \in DOMAIN sockets : WSText(s, "PAUSE_PROCESSED"))
           /\ TurnState = "PauseFlushing")
          => (TurnState' = "Listening" /\ sent' = <<>>)
       /\ Len(currentAudioChunksRef) = 0
          => processPausedAudio(Cur, NoClosure) = Cur]_vars

\* C16: a chunk delivered by a recording recorder is kept: after its handler it is
\* the last element of the buffer, or the handler flushed it as the last chunk of
\* a payload.
ChunkRetained ==
    [][\A r \in DOMAIN recorders : \A size \in ChunkSizes :
          DataAvailable(r, size)
          => \/ currentAudioChunksRef' = Append(currentAudioChunksRef, size)
             \/ \E i \in DOMAIN sent' :
                   /\ sent'[i].kind = "blob"
                   /\ sent'[i].chunks = Append(currentAudioChunksRef, size)]_vars

\* The click that stops: handleMicClick in a render with isRecording true and
\* isPlaying false calls stopRecording and nothing else.
UserStop == MicClick /\ isRecording /\ ~isPlaying

\* C17 as stated: the user's stop leaves the buffer and the silent-chunk count at
\* the values they had before the call.
StopKeepsBufferAndSilenceRun ==
    [][UserStop => UNCHANGED <<currentAudioChunksRef, silentChunksRef>>]_vars

\* C17 as amended: the user's stop leaves the buffer as it was and sets the
\* silent-chunk count to 0; it stops the recorder of mediaRecorderRef and no
\* other, sends nothing, and leaves the sockets, the Audio elements, the pending
\* promises and isPlaying alone.
StopResetsSilenceRunKeepsBuffer ==
    [][UserStop
       => /\ silentChunksRef' = 0
          /\ UNCHANGED <<currentAudioChunksRef, wsRef, mediaRecorderRef, sockets, audios,
                         pendingMedia, pendingBuffers, isPlaying>>
          /\ sent' = <<>>
          /\ \A r \in DOMAIN recorders :
                IF r = mediaRecorderRef
                THEN recorders'[r].state = "inactive"
                ELSE recorders'[r] = recorders[r]]_vars

\* C17 witness: the recorder of mediaRecorderRef has been stopped with chunks in
\* the buffer; the buffer is still there and the count is 0.
StoppedWithBufferKept ==
    /\ mediaRecorderRef # 0
    /\ recorders[mediaRecorderRef].tail
    /\ ~isRecording
    /\ currentAudioChunksRef # <<>>
    /\ silentChunksRef = 0
    /\ sent = <<>>

\* C18: whenever a capture starts (getUserMedia resolves and a recorder is
\* created and started) the buffer is empty.
BufferEmptyWhenCaptureStarts ==
    [][(\E i \in DOMAIN pendingMedia : MediaGranted(i))
       => currentAudioChunksRef' = <<>>]_vars

\* C19: every recorder that is recording is the one mediaRecorderRef holds, the
\* one stopRecording can stop; hence at most one recorder records.
OneCaptureSession ==
    \A r \in DOMAIN recorders : recorders[r].state = "recording" => r = mediaRecorderRef

\* C20: at most one Audio element is playing, and no handler sends
\* CLIENT_DONE_PLAYING more than once.
OnePlaybackAtATime ==
    /\ Cardinality({a \in DOMAIN audios : audios[a] = "playing"}) <= 1
    /\ DonePlayingCount <= 1

====
